---- MODULE Spec2Model ----
(***************************************************************************)
(* GoProTelemetry (gopro_telemetry.py): the constructor validates a video, *)
(* optionally renames it (serial prefix, timestamp suffix), demuxes the    *)
(* telemetry stream to <video>.bin and runs the GPX, JSON, CSV and KML     *)
(* converters.  Strings are sequences of one-character strings; the file   *)
(* system is the set of paths of the regular files on disk.                *)
(***************************************************************************)
EXTENDS Integers, Sequences, FiniteSets, TLC

\* ------------------------------------------------------------------ bounds
MaxRuns == 2

\* ------------------------------------------------------- string primitives
None == <<>>

Digits == {"0","1","2","3","4","5","6","7","8","9"}

DigitChr == <<"0","1","2","3","4","5","6","7","8","9">>

UpperChr == <<"A","B","C","D","E","F","G","H","I","J","K","L","M",
              "N","O","P","Q","R","S","T","U","V","W","X","Y","Z">>

DigitVal(c) == CHOOSE d \in 0..9 : DigitChr[d + 1] = c

\* s[i..] begins with p
StartsAt(s, p, i) ==
    /\ i >= 1
    /\ i + Len(p) - 1 <= Len(s)
    /\ SubSeq(s, i, i + Len(p) - 1) = p

\* Python: s.startswith(p)
StartsWith(s, p) == StartsAt(s, p, 1)

\* Python: p in s
Contains(s, p) == \E i \in 1..(Len(s) - Len(p) + 1) : StartsAt(s, p, i)

RECURSIVE ReplaceFrom(_, _, _, _)
ReplaceFrom(s, old, new, i) ==
    IF i > Len(s) THEN <<>>
    ELSE IF StartsAt(s, old, i)
         THEN new \o ReplaceFrom(s, old, new, i + Len(old))
         ELSE <<s[i]>> \o ReplaceFrom(s, old, new, i + 1)

\* Python: s.replace(old, new) for a non-empty old: every non-overlapping
\* occurrence, scanning left to right
Replace(s, old, new) == ReplaceFrom(s, old, new, 1)

Sep == "/"

LastSep(p) ==
    LET at == {i \in 1..Len(p) : p[i] = Sep}
    IN  IF at = {} THEN 0 ELSE CHOOSE i \in at : \A j \in at : j <= i

\* os.path.basename
Basename(p) == SubSeq(p, LastSep(p) + 1, Len(p))

\* os.path.abspath(os.path.join(p, os.pardir)) for an absolute normalised p
ParentDir(p) == SubSeq(p, 1, LastSep(p) - 1)

\* os.path.join(dir, name)
Join(dir, name) == dir \o <<Sep>> \o name

\* ------------------------------------------------------- program literals
EXT_MP4  == <<".","M","P","4">>
EXT_BIN  == <<".","b","i","n">>
EXT_GPX  == <<".","g","p","x">>
EXT_JSON == <<".","j","s","o","n">>
EXT_CSV  == <<".","c","s","v">>
EXT_KML  == <<".","k","m","l">>
FDSC_SUFFIX == <<"_","f","d","s","c",".","b","i","n">>
GOPRO_MARK  == <<"G","o","P","r","o">>

HeaderLen == 87
SerialLen == 14

\* the value get_stream_index returns when no stream matches (None)
NoIndex == -1

\* serial_regex: a literal prefix followed by `any` arbitrary characters
serial_regex == <<
    [prefix |-> <<"C","3","3">>,     any |-> 11],
    [prefix |-> <<"C","3","2","2">>, any |-> 10],
    [prefix |-> <<"C","3","2">>,     any |-> 11],
    [prefix |-> <<"C","3","1">>,     any |-> 11],
    [prefix |-> <<"H","3">>,         any |-> 13],
    [prefix |-> <<"H","D","3">>,     any |-> 12],
    [prefix |-> <<"H","2">>,         any |-> 12],
    [prefix |-> <<"H","D","2">>,     any |-> 11],
    [prefix |-> <<"H","D","1">>,     any |-> 10] >>

\* re.search(prefix.{any}, s): the leftmost match, or None
RegexSearch(rx, s) ==
    LET n    == Len(rx.prefix) + rx.any
        hits == {i \in 1..(Len(s) - n + 1) : StartsAt(s, rx.prefix, i)}
    IN  IF hits = {} THEN None
        ELSE LET i == CHOOSE h \in hits : \A g \in hits : h <= g
             IN  SubSeq(s, i, i + n - 1)

RECURSIVE FirstMatch(_, _)
FirstMatch(k, name) ==
    IF k > Len(serial_regex) THEN None
    ELSE LET check == RegexSearch(serial_regex[k], name)
         IN  IF check # None THEN check ELSE FirstMatch(k + 1, name)

\* filename_contains_serial: the first pattern, in table order, that matches
\* anywhere in the filename
filename_contains_serial(name) == FirstMatch(1, name)

\* G[HXOP\d][AP\d][AR\d]\d{4}
basename_regex == <<
    {"G"},
    {"H","X","O","P"} \cup Digits,
    {"A","P"} \cup Digits,
    {"A","R"} \cup Digits,
    Digits, Digits, Digits, Digits >>

\* get_basename: does re.search find the recording id in the filename
HasBasename(name) ==
    \E i \in 1..(Len(name) - Len(basename_regex) + 1) :
        \A k \in 1..Len(basename_regex) : name[i + k - 1] \in basename_regex[k]

\* dateutil.parser.parse of an ISO timestamp YYYY-MM-DDTHH:MM:SS[.ffffff]Z
Num(s, a, b) ==
    LET RECURSIVE Acc(_, _)
        Acc(i, v) == IF i > b THEN v ELSE Acc(i + 1, v * 10 + DigitVal(s[i]))
    IN  Acc(a, 0)

ParseTime(s) ==
    [year |-> Num(s, 1, 4), month |-> Num(s, 6, 7), day |-> Num(s, 9, 10),
     hour |-> Num(s, 12, 13), minute |-> Num(s, 15, 16),
     second |-> Num(s, 18, 19)]

\* zero-padded decimal of width w
Pad(v, w) == [i \in 1..w |-> DigitChr[((v \div (10 ^ (w - i))) % 10) + 1]]

\* strftime("%Y-%m-%dT%H%M%S")
Strftime(t) ==
    Pad(t.year, 4) \o <<"-">> \o Pad(t.month, 2) \o <<"-">> \o Pad(t.day, 2)
    \o <<"T">> \o Pad(t.hour, 2) \o Pad(t.minute, 2) \o Pad(t.second, 2)

\* bytes.decode("utf-8") on the ASCII bytes a serial is made of
DecodeByte(b) ==
    IF b \in 48..57 THEN DigitChr[b - 47]
    ELSE IF b \in 65..90 THEN UpperChr[b - 64]
    ELSE "?"

Decode(bytes) == [i \in 1..Len(bytes) |-> DecodeByte(bytes[i])]

\* f.read(87); f.read(14): the 14 bytes after the 87-byte header
ReadSerial(payload) ==
    Decode(SubSeq(payload, HeaderLen + 1,
                  IF Len(payload) < HeaderLen + SerialLen
                  THEN Len(payload) ELSE HeaderLen + SerialLen))

\* ------------------------------------------------------------------ inputs
\* directories that exist on disk (the program creates none)
DIR_V    == <<"/","v">>
DIR_SAME == <<"/","G","H","0","1","0","0","4","2",".","M","P","4">>
DirsOnDisk == {DIR_V, DIR_SAME}

FN_PLAIN == <<"G","H","0","1","0","0","4","2",".","M","P","4">>
FN_LOWER == <<"G","H","0","1","0","0","4","2",".","m","p","4">>
FN_INNER == <<"G","H","0","1","0","0","4","2","_","C","3","2","2","1","2","3",
              "4","5","6","7","8","9","0",".","M","P","4">>
FN_CLIP  == <<"c","l","i","p",".","M","P","4">>
FN_GONE  == <<"G","X","0","1","9","9","9","9",".","M","P","4">>

\* video paths handed to the constructor; MissingVideo is not on disk
Videos == {Join(DIR_V, FN_PLAIN), Join(DIR_V, FN_LOWER), Join(DIR_V, FN_INNER),
           Join(DIR_V, FN_CLIP), Join(DIR_SAME, FN_PLAIN)}
MissingVideo == Join(DIR_V, FN_GONE)

OutputExts == {EXT_BIN, EXT_GPX, EXT_JSON, EXT_CSV, EXT_KML}

\* what ffprobe reports for the video: a JSON document, an error on stderr,
\* or nothing at all
MediaKinds == {"gopro", "no_gpmd", "no_fdsc", "not_gopro", "probe_err", "probe_empty"}

Stream(i, tag, handler) ==
    [index |-> i, codec_tag_string |-> tag, tags |-> [handler_name |-> handler]]

H_AVC   == <<"G","o","P","r","o"," ","A","V","C">>
H_MET   == <<"G","o","P","r","o"," ","M","E","T">>
H_SOS   == <<"G","o","P","r","o"," ","S","O","S">>
H_VIDEO == <<"V","i","d","e","o","H","a","n","d","l","e","r">>
H_SOUND == <<"S","o","u","n","d","H","a","n","d","l","e","r">>

\* json.loads(out)["streams"]
Streams(doc) ==
    CASE doc = "gopro"   -> <<Stream(0, "avc1", H_AVC), Stream(1, "gpmd", H_MET),
                              Stream(2, "fdsc", H_SOS)>>
      [] doc = "no_gpmd" -> <<Stream(0, "avc1", H_AVC), Stream(1, "fdsc", H_SOS)>>
      [] doc = "no_fdsc" -> <<Stream(0, "avc1", H_AVC), Stream(1, "gpmd", H_MET)>>
      [] OTHER           -> <<Stream(0, "avc1", H_VIDEO), Stream(1, "mp4a", H_SOUND)>>

\* json.loads(out)["format"]["tags"]["creation_time"]
CreationTime(doc) ==
    <<"2","0","2","1","-","0","6","-","0","1","T","1","4",":","0","5",":",
      "3","0",".","0","0","0","0","0","0","Z">>

\* the device-info (fdsc) stream of the two cameras: an 87-byte header, the
\* 14 serial bytes, trailing bytes
Devices == {"hero6", "hero11"}

SerialBytes(dev) ==
    IF dev = "hero6"
    THEN <<67, 51, 50, 50, 49, 50, 51, 52, 53, 54, 55, 56, 57, 48>>
    ELSE <<67, 51, 52, 55, 49, 50, 51, 52, 53, 54, 55, 56, 57, 48>>

FdscPayload(dev) == [i \in 1..HeaderLen |-> 0] \o SerialBytes(dev) \o <<0, 0>>

\* ------------------------------------------------------------------- state
VARIABLES
    fs,                 \* regular files on disk
    disk_path,          \* where the video file is on disk
    media,              \* what ffprobe reports for the video
    device,             \* the camera that recorded it
    reprocess,          \* constructor options
    prepend_filename_with_serial,
    append_timestamp,
    run,                \* number of the current run
    arg_path,           \* video_path argument of the current run
    pc,                 \* position in __init__
    error,              \* the exception that ended the run
    ffprobe_streams,    \* self.ffprobe_streams
    video_dir, filename, video_path, telemetry_path, camera_serial,
    log                 \* commands and renames issued in the current run

env  == <<media, device, reprocess, prepend_filename_with_serial, append_timestamp>>
mem  == <<ffprobe_streams, video_dir, filename, video_path, telemetry_path, camera_serial>>
vars == <<fs, disk_path, env, run, arg_path, pc, error, mem, log>>

NoDoc == "None"

Init ==
    /\ arg_path \in Videos \cup {MissingVideo}
    /\ \E pre \in SUBSET OutputExts :
           fs = {arg_path \o e : e \in pre}
                \cup (IF arg_path = MissingVideo THEN {} ELSE {arg_path})
    /\ disk_path = arg_path
    /\ media \in MediaKinds
    /\ device \in Devices
    /\ reprocess \in BOOLEAN
    /\ prepend_filename_with_serial \in BOOLEAN
    /\ append_timestamp \in BOOLEAN
    /\ run = 1
    /\ pc = "ensure_valid_path"
    /\ error = "none"
    /\ ffprobe_streams = NoDoc
    /\ video_dir = None /\ filename = None /\ video_path = None
    /\ telemetry_path = None /\ camera_serial = None
    /\ log = <<>>

Raise(kind) == pc' = "failed" /\ error' = kind

Goto(next) == pc' = next /\ error' = error

\* ------------------------------------------------------------ validation
\* ensure_valid_path
ensure_valid_path ==
    /\ pc = "ensure_valid_path"
    /\ IF arg_path \in fs THEN Goto("get_ffprobe_streams") ELSE Raise("OSError")
    /\ UNCHANGED <<fs, disk_path, env, run, arg_path, mem, log>>

\* get_ffprobe_streams: None when ffprobe wrote to stderr, json.loads otherwise
get_ffprobe_streams ==
    /\ pc = "get_ffprobe_streams"
    /\ IF media = "probe_err"
       THEN ffprobe_streams' = NoDoc /\ Goto("ensure_valid_gopro_video")
       ELSE IF media = "probe_empty"
            THEN ffprobe_streams' = ffprobe_streams /\ Raise("JSONDecodeError")
            ELSE ffprobe_streams' = media /\ Goto("ensure_valid_gopro_video")
    /\ UNCHANGED <<fs, disk_path, env, run, arg_path, log,
                   video_dir, filename, video_path, telemetry_path, camera_serial>>

\* variant: the flag starts out set
found_gopro_indicator_AlwaysFound(streams) == TRUE

found_gopro_indicator(streams) ==
    \E i \in 1..Len(streams) : Contains(streams[i].tags.handler_name, GOPRO_MARK)

\* ensure_valid_gopro_video: subscripting None raises TypeError
ensure_valid_gopro_video ==
    /\ pc = "ensure_valid_gopro_video"
    /\ IF ffprobe_streams = NoDoc
       THEN Raise("TypeError")
       ELSE IF found_gopro_indicator(Streams(ffprobe_streams))
            THEN Goto("load_executables")
            ELSE Raise("Exception")
    /\ UNCHANGED <<fs, disk_path, env, run, arg_path, mem, log>>

\* load_executables: the configuration file may be missing or malformed
load_executables ==
    /\ pc = "load_executables"
    /\ \E ok \in BOOLEAN : IF ok THEN Goto("attributes") ELSE Raise("ConfigError")
    /\ UNCHANGED <<fs, disk_path, env, run, arg_path, mem, log>>

\* __init__, "Instantiate attributes"; get_basename raises on an unknown name
instantiate_attributes ==
    /\ pc = "attributes"
    /\ video_dir' = ParentDir(arg_path)
    /\ filename' = Basename(arg_path)
    /\ video_path' = arg_path
    /\ IF HasBasename(Basename(arg_path))
       THEN telemetry_path' = arg_path \o EXT_BIN /\ Goto("prepend")
       ELSE telemetry_path' = telemetry_path /\ Raise("Exception")
    /\ UNCHANGED <<fs, disk_path, env, run, arg_path, log,
                   ffprobe_streams, camera_serial>>

\* ------------------------------------------------------- external effects
\* one entry of the log: a command run by call_subprocess, or an os.rename
Cmd(step, tool, src, dst, idx, rc) ==
    [step |-> step, tool |-> tool, src |-> src, dst |-> dst, idx |-> idx, rc |-> rc]

\* get_stream_index: the index of the first stream with the codec tag; falls
\* off the end of the loop (None) when there is none
get_stream_index(code_tag_string) ==
    LET streams == Streams(ffprobe_streams)
        hits    == {i \in 1..Len(streams) :
                        streams[i].codec_tag_string = code_tag_string}
    IN  IF hits = {} THEN NoIndex
        ELSE streams[CHOOSE h \in hits : \A g \in hits : h <= g].index

\* exit codes ffmpeg can return: "-map 0:None" is not a stream specifier and
\* a missing input cannot be opened
FfmpegExit(input, stream_index) ==
    IF stream_index = NoIndex \/ input \notin fs THEN {1} ELSE {0, 1}

\* exit codes of a converter reading the telemetry binary
ConverterExit(input) == IF input \in fs THEN {0, 1} ELSE {1}

\* os.rename(src, dst): needs the source and the target directory, and can
\* still be refused by the operating system
RenameOk(src, dst) ==
    IF src \in fs /\ ParentDir(dst) \in DirsOnDisk THEN BOOLEAN ELSE {FALSE}

\* variant: the exit code is not looked at
call_subprocess_Swallow(rc, next) == Goto(next)

\* call_subprocess: a non-zero exit code raises CalledProcessError
call_subprocess(rc, next) ==
    IF rc = 0 THEN Goto(next) ELSE Raise("CalledProcessError")

\* ------------------------------------------------------------- renaming
\* "{}_{}".format(self.camera_serial, self.filename)
SerialFilename(serial, name) == serial \o <<"_">> \o name

\* self.filename.replace(".MP4", "_{}.MP4".format(timestamp))
TimestampFilename(name, timestamp) ==
    Replace(name, EXT_MP4, <<"_">> \o timestamp \o EXT_MP4)

\* self.video_path.replace(self.filename, new_filename)
NewVideoPath(path, name, new_filename) == Replace(path, name, new_filename)

\* variant: the telemetry path is not carried over to the new name
NewTelemetryPath_Stale(path, name, new_filename) == path

\* self.telemetry_path.replace(self.filename, new_filename)
NewTelemetryPath(path, name, new_filename) == Replace(path, name, new_filename)

\* "Update with new values": the filename is assigned before os.rename runs,
\* the two paths after it.  `files` is the disk and `pre` the log when the
\* update starts
UpdateWithNewValues(step, new_filename, files, pre, next) ==
    LET new_video_path     == NewVideoPath(video_path, filename, new_filename)
        new_telemetry_path == NewTelemetryPath(telemetry_path, filename, new_filename)
    IN  \E ok \in RenameOk(video_path, new_video_path) :
            /\ filename' = new_filename
            /\ log' = pre \o <<Cmd(step, "os.rename", video_path, new_video_path,
                                   NoIndex, IF ok THEN 0 ELSE 1)>>
            /\ IF ok
               THEN /\ fs' = (files \ {video_path}) \cup {new_video_path}
                    /\ disk_path' = new_video_path
                    /\ video_path' = new_video_path
                    /\ telemetry_path' = new_telemetry_path
                    /\ Goto(next)
               ELSE /\ fs' = files
                    /\ UNCHANGED <<disk_path, video_path, telemetry_path>>
                    /\ Raise("OSError")

\* process_prepend_filename_with_serial, with retrieve_camera_serial inlined:
\* ffmpeg copies the fdsc stream to a temporary file, the serial is read from
\* it and the file is removed
process_prepend_filename_with_serial ==
    /\ pc = "prepend"
    /\ prepend_filename_with_serial
    /\ LET found == filename_contains_serial(filename)
       IN  IF found # None
           THEN /\ camera_serial' = found
                /\ Goto("append")
                /\ UNCHANGED <<fs, disk_path, filename, video_path,
                               telemetry_path, log>>
           ELSE LET stream_index     == get_stream_index("fdsc")
                    temp_output_path == video_path \o FDSC_SUFFIX
                IN  \E rc \in FfmpegExit(video_path, stream_index) :
                      LET ran == Append(log, Cmd("prepend", "ffmpeg", video_path,
                                                 temp_output_path, stream_index, rc))
                      IN  IF rc # 0
                          THEN /\ log' = ran
                               /\ camera_serial' = None
                               /\ call_subprocess(rc, "append")
                               /\ UNCHANGED <<fs, disk_path, filename, video_path,
                                              telemetry_path>>
                          ELSE LET serial == ReadSerial(FdscPayload(device))
                               IN  /\ camera_serial' = serial
                                   /\ UpdateWithNewValues("prepend",
                                          SerialFilename(serial, filename),
                                          fs \ {temp_output_path}, ran, "append")
    /\ UNCHANGED <<env, run, arg_path, ffprobe_streams, video_dir>>

\* __init__: prepend_filename_with_serial is off
skip_prepend ==
    /\ pc = "prepend"
    /\ ~prepend_filename_with_serial
    /\ Goto("append")
    /\ UNCHANGED <<fs, disk_path, env, run, arg_path, mem, log>>

\* get_creation_time and strftime
Timestamp == Strftime(ParseTime(CreationTime(ffprobe_streams)))

\* append_filename_with_timestamp
append_filename_with_timestamp ==
    /\ pc = "append"
    /\ append_timestamp
    /\ IF ~Contains(filename, Timestamp)
       THEN UpdateWithNewValues("append", TimestampFilename(filename, Timestamp),
                                fs, log, "extract_telemetry")
       ELSE /\ Goto("extract_telemetry")
            /\ UNCHANGED <<fs, disk_path, filename, video_path, telemetry_path, log>>
    /\ UNCHANGED <<env, run, arg_path, ffprobe_streams, video_dir, camera_serial>>

\* __init__: append_filename_with_timestamp is off
skip_append ==
    /\ pc = "append"
    /\ ~append_timestamp
    /\ Goto("extract_telemetry")
    /\ UNCHANGED <<fs, disk_path, env, run, arg_path, mem, log>>

\* ------------------------------------------------------------ extraction
\* variant: the existence test is not negated
NeedsRun_Inverted(path) == reprocess \/ path \in fs

\* variant: the reprocess option is not consulted
NeedsRun_IgnoresReprocess(path) == path \notin fs

\* "If reprocessing or ... does not yet exists"
NeedsRun(path) == reprocess \/ path \notin fs

\* extract_telemetry
extract_telemetry ==
    /\ pc = "extract_telemetry"
    /\ IF NeedsRun(telemetry_path)
       THEN LET stream_index == get_stream_index("gpmd")
            IN  \E rc \in FfmpegExit(video_path, stream_index) :
                    /\ log' = Append(log, Cmd("extract_telemetry", "ffmpeg", video_path,
                                              telemetry_path, stream_index, rc))
                    /\ fs' = IF rc = 0 THEN fs \cup {telemetry_path} ELSE fs
                    /\ call_subprocess(rc, "extract_gpx")
       ELSE Goto("extract_gpx") /\ UNCHANGED <<fs, log>>
    /\ UNCHANGED <<disk_path, env, run, arg_path, mem>>

\* the output path of a converter: os.path.join(self.video_dir, self.filename + ext)
OutputPath(ext) == Join(video_dir, filename \o ext)

\* one converter step: skip, or run the tool with -i telemetry_path -o output
Convert(step, tool, ext, next) ==
    /\ LET out == OutputPath(ext)
       IN  IF NeedsRun(out)
           THEN \E rc \in ConverterExit(telemetry_path) :
                    /\ log' = Append(log, Cmd(step, tool, telemetry_path, out, NoIndex, rc))
                    /\ fs' = IF rc = 0 THEN fs \cup {out} ELSE fs
                    /\ call_subprocess(rc, next)
           ELSE Goto(next) /\ UNCHANGED <<fs, log>>
    /\ UNCHANGED <<disk_path, env, run, arg_path, mem>>

extract_gpx ==
    /\ pc = "extract_gpx"
    /\ Convert("extract_gpx", "gopro2gpx", EXT_GPX, "extract_json")

extract_json ==
    /\ pc = "extract_json"
    /\ Convert("extract_json", "gopro2json", EXT_JSON, "extract_csv")

extract_csv ==
    /\ pc = "extract_csv"
    /\ Convert("extract_csv", "gopro2csv", EXT_CSV, "extract_kml")

extract_kml ==
    /\ pc = "extract_kml"
    /\ Convert("extract_kml", "gps2kml", EXT_KML, "done")

\* the program is started again on the file the finished run left on disk
Rerun ==
    /\ pc = "done"
    /\ run < MaxRuns
    /\ run' = run + 1
    /\ arg_path' = disk_path
    /\ pc' = "ensure_valid_path"
    /\ error' = "none"
    /\ ffprobe_streams' = NoDoc
    /\ video_dir' = None /\ filename' = None /\ video_path' = None
    /\ telemetry_path' = None /\ camera_serial' = None
    /\ log' = <<>>
    /\ UNCHANGED <<fs, disk_path, env>>

Next ==
    \/ ensure_valid_path
    \/ get_ffprobe_streams
    \/ ensure_valid_gopro_video
    \/ load_executables
    \/ instantiate_attributes
    \/ process_prepend_filename_with_serial
    \/ skip_prepend
    \/ append_filename_with_timestamp
    \/ skip_append
    \/ extract_telemetry
    \/ extract_gpx
    \/ extract_json
    \/ extract_csv
    \/ extract_kml
    \/ Rerun

Spec == Init /\ [][Next]_vars

\* ------------------------------------------------------------ properties
ConverterSteps == {"extract_gpx", "extract_json", "extract_csv", "extract_kml"}

GeneratingSteps == {"extract_telemetry"} \cup ConverterSteps

StepExt(step) ==
    CASE step = "extract_telemetry" -> EXT_BIN
      [] step = "extract_gpx"       -> EXT_GPX
      [] step = "extract_json"      -> EXT_JSON
      [] step = "extract_csv"       -> EXT_CSV
      [] OTHER                      -> EXT_KML

StepRank(step) ==
    CASE step = "extract_telemetry" -> 0
      [] step = "extract_gpx"       -> 1
      [] step = "extract_json"      -> 2
      [] step = "extract_csv"       -> 3
      [] step = "extract_kml"       -> 4
      [] OTHER                      -> 5

StepAfter(step) ==
    CASE step = "extract_telemetry" -> "extract_gpx"
      [] step = "extract_gpx"       -> "extract_json"
      [] step = "extract_json"      -> "extract_csv"
      [] step = "extract_csv"       -> "extract_kml"
      [] OTHER                      -> "done"

\* the file a generating step writes, as the file system names it
TargetOnDisk(step) == Join(ParentDir(disk_path), Basename(disk_path) \o StepExt(step))

EntriesOf(steps) == {i \in 1..Len(log) : log[i].step \in steps}

\* C1: with reprocess off, a generating step (telemetry demux, GPX, JSON, CSV,
\* KML) whose target file exists when the step is reached runs no external
\* tool, changes nothing on disk and hands over to the next step without error.
C1_SkipPolicy ==
    [][ \A step \in GeneratingSteps :
          (pc = step /\ ~reprocess /\ TargetOnDisk(step) \in fs)
            => (log' = log /\ fs' = fs /\ pc' = StepAfter(step) /\ error' = "none")
      ]_vars

\* a run without reprocess that ended with all five steps skipped
C1_Witness ==
    /\ pc = "done"
    /\ ~reprocess
    /\ EntriesOf(GeneratingSteps) = {}
    /\ \A step \in GeneratingSteps : TargetOnDisk(step) \in fs

\* C2: in a run with reprocess on, no converter is invoked more than once, and
\* while no command has failed every conversion step the run has gone through
\* has invoked its converter exactly once, whichever output files were there
\* before the run.
C2_ReprocessRunsEachOnce ==
    reprocess =>
        \A step \in ConverterSteps :
            /\ Cardinality(EntriesOf({step})) <= 1
            /\ (pc \in GeneratingSteps \cup {"done"} /\ StepRank(step) < StepRank(pc))
                  => Cardinality(EntriesOf({step})) = 1

\* a second run with reprocess on: every output was on disk before it started
C2_Witness ==
    /\ pc = "done"
    /\ reprocess
    /\ run = 2
    /\ \A step \in ConverterSteps : Cardinality(EntriesOf({step})) = 1

Renamed == \E i \in 1..Len(log) : log[i].tool = "os.rename" /\ log[i].rc = 0

C4_FailedRenameKeepsRecord ==
    (Len(log) > 0 /\ log[Len(log)].tool = "os.rename" /\ log[Len(log)].rc # 0) =>
        /\ filename = Basename(disk_path)
        /\ video_path = disk_path
        /\ telemetry_path = disk_path \o EXT_BIN

\* C5: a serial prefixing step that completes has renamed the video to
\* {serial}_{filename} exactly when the serial it obtained (from the filename
\* or from the device-info stream) is not what the filename starts with.
C5_PrefixIffNotAtStart ==
    [][ (pc = "prepend" /\ prepend_filename_with_serial /\ pc' = "append") =>
          ( (/\ disk_path' = Join(video_dir, SerialFilename(camera_serial', filename))
             /\ disk_path' \in fs')
            <=> ~StartsWith(filename, camera_serial') )
      ]_vars

\* C6: in a run that follows a finished run with timestamp suffixing on, the
\* timestamp step issues no rename and the timestamp is part of the filename.
C6_TimestampIdempotent ==
    (run >= 2 /\ append_timestamp /\ pc \in GeneratingSteps \cup {"done"}) =>
        /\ EntriesOf({"append"}) = {}
        /\ Contains(Basename(arg_path), Strftime(ParseTime(CreationTime(media))))

\* C7: in a run on a file that a previous run prefixed with the serial of its
\* device-info stream, serial prefixing extracts nothing and renames nothing.
C7_SerialIdempotent ==
    (/\ run >= 2
     /\ prepend_filename_with_serial
     /\ StartsWith(Basename(arg_path), ReadSerial(FdscPayload(device)) \o <<"_">>))
        => EntriesOf({"prepend"}) = {}

\* C8: the demuxer is never run for a stream that the container does not
\* have, and a missing gpmd or fdsc stream ends the run with a
\* stream-not-found error.
C8_MissingStreamStopsDemux ==
    /\ \A i \in 1..Len(log) : log[i].tool = "ffmpeg" => log[i].idx # NoIndex
    /\ (pc = "failed" /\ get_stream_index("gpmd") = NoIndex
            /\ filename # None /\ Len(log) > 0
            /\ log[Len(log)].step = "extract_telemetry")
          => error = "StreamNotFoundError"

\* C9: the converters run in the order GPX, JSON, CSV, KML, each at most once;
\* a command that exits non-zero is the last thing the run does (nothing is
\* invoked after it, the run has failed and takes no further step); whatever
\* earlier steps produced, and the renamed video, are still on disk.
C9_OrderAndAbort ==
    /\ \A i, j \in EntriesOf(ConverterSteps) :
          i < j => StepRank(log[i].step) < StepRank(log[j].step)
    /\ \A i \in 1..Len(log) : log[i].rc # 0 => (i = Len(log) /\ pc = "failed")
    /\ \A i \in EntriesOf(GeneratingSteps) : log[i].rc = 0 => log[i].dst \in fs
    /\ Renamed => disk_path \in fs

C9_FailurePropagates ==
    /\ []C9_OrderAndAbort
    /\ [][pc = "failed" => UNCHANGED vars]_vars

\* the JSON converter failed after a rename, the demux and the GPX converter
C9_Witness ==
    /\ pc = "failed"
    /\ Renamed
    /\ Len(log) > 0
    /\ log[Len(log)].step = "extract_json"
    /\ log[Len(log)].rc # 0
    /\ EntriesOf({"extract_gpx"}) # {}
    /\ TargetOnDisk("extract_gpx") \in fs

\* the input that validation rejects: not a regular file, a prober error or
\* no prober output, or no handler name with the brand marker
InvalidInput ==
    \/ arg_path = MissingVideo
    \/ media \in {"probe_err", "probe_empty"}
    \/ media = "not_gopro"

\* C10: on an input that validation rejects, the run never gets past
\* validation: nothing is renamed, no demuxer or converter is invoked and the
\* files on disk stay as they were.
C10_InvalidInputStopsRun ==
    /\ [](InvalidInput =>
            /\ log = <<>>
            /\ disk_path = arg_path
            /\ run = 1
            /\ pc \in {"ensure_valid_path", "get_ffprobe_streams",
                       "ensure_valid_gopro_video", "failed"})
    /\ [][InvalidInput => fs' = fs]_vars

\* validation failed for want of the brand marker
C10_Witness ==
    /\ pc = "failed"
    /\ media = "not_gopro"
    /\ error = "Exception"
    /\ log = <<>>

====
